---- MODULE Spec2Model ----
(***************************************************************************)
(* Vocabulary store, review queue, review session and daily statistics of  *)
(* the language page tool: IndexedDBService (vocabulary, reviews, daily    *)
(* stats), FSRSService and the ReviewPage component.                       *)
(*                                                                         *)
(* Strings whose content matters (words, language codes, store keys) are   *)
(* sequences of one-character strings, so that lower-casing, the           *)
(* concatenation `${word}_${language}` and the key order of an object      *)
(* store are computed, not assumed.  Time is a clock of ticks; a calendar  *)
(* date is the number of the day a tick falls in.                          *)
(***************************************************************************)
EXTENDS Integers, Sequences, FiniteSets, TLC

(***************************************************************************)
(* Bounds of the model.                                                    *)
(***************************************************************************)
MaxNow == 2          \* the clock runs from 1 to MaxNow
MaxVocab == 2        \* stored words in the vocabulary specification
MaxSeed == 2         \* stored words at the start of the session specification
MaxLong == 5         \* stored words at the start of the long-queue specification
MaxReviews == 3      \* rate() calls over one behaviour
MaxFailures == 1     \* injected storage failures over one behaviour
MaxLoads == 2        \* queue builds over one behaviour
MaxDueNew == 22      \* due new words in the queue-building specification
MaxHigh == 2         \* words with a second context in that specification
MaxShuffle == 3      \* longest bucket whose every permutation is explored
MaxDay == 3          \* last calendar day of the streak specification
MaxCalls == 3        \* updateDailyStats calls issued over one behaviour
MaxAgain == 2        \* Again ratings over one behaviour of the fair session

(***************************************************************************)
(* Program constants and policy values.                                    *)
(***************************************************************************)
MAX_NEW_CARDS == 20  \* ReviewPage.tsx: const MAX_NEW_CARDS = 20
ReinsertOffset == 4  \* ReviewPage.tsx: Math.min(currentIndex + 4, ...)
DayTicks == 2        \* ticks per calendar day (time scale of the model)

VARIABLES
  vocab,             \* object store 'vocab': key -> VocabWord
  wordReviews,       \* object store 'wordReviews', in insertion order
  reviewSessions,    \* object store 'reviewSessions', in insertion order
  dailyStats,        \* object store 'dailyStats': <<date, language>> -> row
  now,               \* Date.now()
  page,              \* the mounted route: "other" or "review"
  selectedLanguage,  \* settings.selectedLanguage, the ReviewPage prop
  reviewQueue,       \* ReviewPage state
  currentIndex,      \* ReviewPage state (0-based, as in the code)
  sessionStartTime,  \* ReviewPage state; NoTime is null
  reviewedCount,     \* ReviewPage state
  sessionComplete,   \* ReviewPage state
  failures,          \* storage failures injected so far
  loads,             \* queues built so far
  calls,             \* updateDailyStats calls issued, in transaction order
  backup,            \* the export file the user holds, NoBackup when none
  lastOp             \* the last call and what it observed (history)

vars == <<vocab, wordReviews, reviewSessions, dailyStats, now, page,
          selectedLanguage, reviewQueue, currentIndex, sessionStartTime,
          reviewedCount, sessionComplete, failures, loads, calls,
          backup, lastOp>>

storeVars == <<vocab, wordReviews, reviewSessions, dailyStats>>
pageVars == <<reviewQueue, currentIndex, sessionStartTime, reviewedCount,
              sessionComplete>>

NoTime == 0

NoBackup == [taken |-> FALSE]

(***************************************************************************)
(* Strings.                                                                *)
(***************************************************************************)
\* The characters in use, in UTF-16 code unit order ("M" < "_" < "a").
Alphabet ==
  <<"M", "_", "a", "b", "c", "d", "e", "f", "g", "h", "i", "j", "k", "l",
    "m", "n", "o", "p", "q", "r", "s", "t", "u", "v", "w", "x", "y", "z">>

CharCode(c) == CHOOSE i \in 1..Len(Alphabet) : Alphabet[i] = c

LowerChar(c) == IF c = "M" THEN "m" ELSE c

toLowerCase(s) == [i \in 1..Len(s) |-> LowerChar(s[i])]

RECURSIVE StrLess(_, _)
StrLess(a, b) ==
  IF a = <<>> THEN b # <<>>
  ELSE IF b = <<>> THEN FALSE
  ELSE IF a[1] = b[1] THEN StrLess(Tail(a), Tail(b))
  ELSE CharCode(a[1]) < CharCode(b[1])

\* The keys of an object store in the order getAll() returns them.
RECURSIVE KeyOrder(_)
KeyOrder(S) ==
  IF S = {} THEN <<>>
  ELSE LET m == CHOOSE x \in S : \A y \in S \ {x} : StrLess(x, y)
       IN  <<m>> \o KeyOrder(S \ {m})

Range(s) == {s[i] : i \in 1..Len(s)}

RECURSIVE SelectSeqIdx(_, _, _)
\* The entries of s whose index satisfies keep, in order.
SelectSeqIdx(s, keep(_), i) ==
  IF i > Len(s) THEN <<>>
  ELSE (IF keep(i) THEN <<s[i]>> ELSE <<>>) \o SelectSeqIdx(s, keep, i + 1)

Min(a, b) == IF a < b THEN a ELSE b

(***************************************************************************)
(* Inputs.                                                                 *)
(***************************************************************************)
LangSq == <<"s", "q">>
LangEn == <<"e", "n">>
LangAll == <<"a", "l", "l">>
Languages == {LangSq, LangEn}
Filters == Languages \cup {LangAll}

Words == {<<"m">>, <<"M">>, <<"u">>}

\* Two sentences; the first one also occurs on a second page.
Contexts ==
  {[sentenceId |-> 1, pageId |-> 1], [sentenceId |-> 1, pageId |-> 2],
   [sentenceId |-> 2, pageId |-> 1]}

\* Rating of ts-fsrs: Again = 1, Hard = 2, Good = 3, Easy = 4.
Again == 1
Hard == 2
Good == 3
Easy == 4
Ratings == {Again, Hard, Good, Easy}

\* State of ts-fsrs: New = 0, Learning = 1, Review = 2, Relearning = 3.
StNew == 0
StLearning == 1
StReview == 2
StRelearning == 3

\* new Date().toISOString().split('T')[0], as a day number.
DateOf(t) == t \div DayTicks


(***************************************************************************)
(* FSRSService (ts-fsrs behind it).  A card is its state and its due time; *)
(* stability, difficulty and the counters are read by no code modelled     *)
(* here.  The library schedules a learning step a short delay ahead and a  *)
(* review interval whole days ahead.                                       *)
(***************************************************************************)
\* dates is the type the date fields of the card (due, last_review) have in
\* the stored value: ts-fsrs makes Date objects, which the structured clone
\* of IndexedDB keeps.
createCard(t) == [state |-> StNew, due |-> t, dates |-> "Date"]

NextCardState(state, rating) ==
  IF state = StReview
  THEN (IF rating = Again THEN StRelearning ELSE StReview)
  ELSE IF rating = Easy \/ (rating = Good /\ state # StNew) THEN StReview
  ELSE IF state = StRelearning THEN StRelearning
  ELSE StLearning

\* A variant that gives the short delay to a review and the days to a step.
CardInterval_DaysForSteps(state, rating) ==
  IF NextCardState(state, rating) = StReview THEN 1 ELSE DayTicks

CardInterval(state, rating) ==
  LET next == NextCardState(state, rating)
  IN  IF next # StReview THEN 1
      ELSE IF rating = Easy THEN 2 * DayTicks
      ELSE DayTicks

\* The values handleRating can be called with: the four ratings, and two
\* values that are none of them (0 is Rating.Manual of ts-fsrs).
RatingInputs == Ratings \cup {0, 5}

\* A variant whose loop ends by returning an item instead of throwing.
RatingFound_Always(rating) == TRUE

\* reviewWord finds the item of f.repeat(card, now) whose log.rating is the
\* given rating: there is one for each of the four ratings.  When there is
\* none it throws `Rating ... not found in scheduling cards`.
RatingFound(rating) == rating \in Ratings

reviewWord(card, rating, t) ==
  [state |-> NextCardState(card.state, rating),
   due |-> t + CardInterval(card.state, rating),
   dates |-> "Date"]

(***************************************************************************)
(* IndexedDBService: vocabulary.                                           *)
(***************************************************************************)
VocabKey(word, language) == toLowerCase(word) \o <<"_">> \o language

\* A variant without the sentenceId test: the context is appended whatever the list holds.
MergeContexts_NoDedup(existing, context) == Append(existing, context)

\* addVocabWord, the contexts of an existing word after the call.
MergeContexts(existing, context) ==
  IF \E i \in 1..Len(existing) : existing[i].sentenceId = context.sentenceId
  THEN existing
  ELSE Append(existing, context)

\* addVocabWord, the record put into the store.
addVocabWordRecord(store, word, language, context, fsrsCard) ==
  LET key == VocabKey(word, language)
  IN  IF key \in DOMAIN store
      THEN [store[key] EXCEPT !.contexts = MergeContexts(@, context)]
      ELSE [word |-> toLowerCase(word), language |-> language,
            ignored |-> FALSE, fsrsCard |-> fsrsCard,
            contexts |-> <<context>>]

PutVocab(store, key, rec) ==
  [k \in DOMAIN store \cup {key} |-> IF k = key THEN rec ELSE store[k]]

\* updateVocabCard: the store after the call.  A key that is not stored
\* takes the else branch, which puts nothing.
updateVocabCard(store, word, language, fsrsCard) ==
  LET key == VocabKey(word, language)
  IN  IF key \in DOMAIN store
      THEN [store EXCEPT ![key].fsrsCard = fsrsCard]
      ELSE store

\* A variant that puts a record also when the get finds none.
toggleIgnoreWord_Upsert(store, word, language) ==
  LET key == VocabKey(word, language)
  IN  IF key \in DOMAIN store
      THEN [store EXCEPT ![key].ignored = ~@]
      ELSE PutVocab(store, key,
                    [word |-> toLowerCase(word), language |-> language,
                     ignored |-> TRUE, fsrsCard |-> createCard(0),
                     contexts |-> <<>>])

\* toggleIgnoreWord: the store after the call.
toggleIgnoreWord(store, word, language) ==
  LET key == VocabKey(word, language)
  IN  IF key \in DOMAIN store
      THEN [store EXCEPT ![key].ignored = ~@]
      ELSE store

\* How the promise of updateVocabCard or toggleIgnoreWord settles when no
\* request fails: resolve() after the put, reject(new Error('Vocab word not
\* found')) when the get finds nothing.
VocabCallOutcome(store, word, language) ==
  IF VocabKey(word, language) \in DOMAIN store
  THEN [settled |-> "resolved", error |-> "none"]
  ELSE [settled |-> "rejected", error |-> "Vocab word not found"]

\* getVocabWords(language, includeIgnored): getAll(), then the two filters.
getVocabWords(store, language, includeIgnored) ==
  LET keys == KeyOrder(DOMAIN store)
      all == [i \in 1..Len(keys) |-> store[keys[i]]]
      byLang == IF language # <<>> /\ language # LangAll
                THEN SelectSeq(all, LAMBDA w : w.language = language)
                ELSE all
  IN  IF ~includeIgnored
      THEN SelectSeq(byLang, LAMBDA w : ~w.ignored)
      ELSE byLang

\* A variant without the due test.
getWordsDueForReview_NoDueFilter(store, language, t) ==
  getVocabWords(store, language, FALSE)

\* getWordsDueForReview(language) at time t.
getWordsDueForReview(store, language, t) ==
  SelectSeq(getVocabWords(store, language, FALSE),
            LAMBDA w : w.fsrsCard.due <= t)

(***************************************************************************)
(* IndexedDBService: daily statistics.                                     *)
(***************************************************************************)
\* updateDailyStats(language, field, increment) at time t.
updateDailyStats(stats, language, field, increment, t) ==
  LET key == <<DateOf(t), language>>
      row == IF key \in DOMAIN stats
             THEN stats[key]
             ELSE [date |-> DateOf(t), language |-> language,
                   reviewCount |-> 0, wordsAdded |-> 0]
      new == IF field = "reviewCount"
             THEN [row EXCEPT !.reviewCount = @ + increment]
             ELSE [row EXCEPT !.wordsAdded = @ + increment]
  IN  [k \in DOMAIN stats \cup {key} |-> IF k = key THEN new ELSE stats[k]]

\* getDailyStats(language): getAll() in key order (`${date}_${language}`: by
\* date, then by language), then the language filter.
RECURSIVE StatKeyOrder(_)
StatKeyOrder(S) ==
  IF S = {} THEN <<>>
  ELSE LET m == CHOOSE x \in S : \A y \in S \ {x} :
                  x[1] < y[1] \/ (x[1] = y[1] /\ StrLess(x[2], y[2]))
       IN  <<m>> \o StatKeyOrder(S \ {m})

getDailyStats(stats, language) ==
  LET keys == StatKeyOrder(DOMAIN stats)
      all == [i \in 1..Len(keys) |-> stats[keys[i]]]
  IN  IF language # <<>> /\ language # LangAll
      THEN SelectSeq(all, LAMBDA r : r.language = language)
      ELSE all

\* stats.sort((a, b) => b.date.localeCompare(a.date)): a stable sort,
\* descending by date.
RECURSIVE SortByDateDesc(_)
SortByDateDesc(s) ==
  IF s = <<>> THEN <<>>
  ELSE LET x == s[Len(s)]
           rest == SortByDateDesc(SubSeq(s, 1, Len(s) - 1))
           k == Cardinality({i \in 1..Len(rest) : rest[i].date >= x.date})
       IN  SubSeq(rest, 1, k) \o <<x>> \o SubSeq(rest, k + 1, Len(rest))

\* currentDate.setDate(currentDate.getDate() - 1) followed by
\* toISOString().split('T')[0].  currentDate starts as new Date(today), the
\* UTC midnight of today; getDate and setDate work on the local calendar
\* and keep the local time of day; toISOString gives the UTC date.  Where
\* the local clock is never set back this is the day before d.  Where it
\* is set back by an hour on a day of fallBack (the end of daylight saving
\* time), the step from the day after it lands on the same local time of
\* day before the change, one hour early in UTC: at 23:00 of the day before
\* the day of the change.
PrevExpectedDate(d, fallBack) ==
  IF (d - 1) \in fallBack THEN d - 2 ELSE d - 1

\* The loop of getStreak from the i-th row on.
RECURSIVE StreakLoop(_, _, _, _, _)
StreakLoop(rows, i, streak, expected, fallBack) ==
  IF i > Len(rows) THEN streak
  ELSE IF rows[i].date = expected /\ rows[i].reviewCount > 0
       THEN StreakLoop(rows, i + 1, streak + 1,
                       PrevExpectedDate(expected, fallBack), fallBack)
  ELSE IF rows[i].date < expected THEN streak
  ELSE StreakLoop(rows, i + 1, streak, expected, fallBack)

\* A variant whose walk starts at the day of the most recent row instead
\* of today.
getStreak_FromLatestRow(stats, language, today, fallBack) ==
  LET rows == SortByDateDesc(getDailyStats(stats, language))
  IN  IF Len(rows) = 0 THEN 0
      ELSE StreakLoop(rows, 1, 0, rows[1].date, fallBack)

\* getStreak(language) on the day today, in a time zone whose clock is set
\* back on the days of fallBack.
getStreak(stats, language, today, fallBack) ==
  LET rows == getDailyStats(stats, language)
  IN  IF Len(rows) = 0 THEN 0
      ELSE StreakLoop(SortByDateDesc(rows), 1, 0, today, fallBack)

\* A counter of today's row for a language, 0 when the row does not exist.
ReviewCountOf(stats, date, language) ==
  IF <<date, language>> \in DOMAIN stats
  THEN stats[<<date, language>>].reviewCount
  ELSE 0

EmptyFn == [k \in {} |-> 0]

(***************************************************************************)
(* Initial states.  The database outlives the page: a specification starts *)
(* from an empty database or from one that addVocabWord calls have filled. *)
(***************************************************************************)
InitPage ==
  /\ now = 1
  /\ page = "other"
  /\ selectedLanguage = LangAll
  /\ reviewQueue = <<>>
  /\ currentIndex = 0
  /\ sessionStartTime = NoTime
  /\ reviewedCount = 0
  /\ sessionComplete = FALSE
  /\ failures = 0
  /\ loads = 0
  /\ calls = <<>>
  /\ backup = NoBackup
  /\ lastOp = [op |-> "init"]

InitEmpty ==
  /\ vocab = EmptyFn
  /\ wordReviews = <<>>
  /\ reviewSessions = <<>>
  /\ dailyStats = EmptyFn
  /\ InitPage

\* The i-th word of a filled database: "a", "b", ...; the second one is
\* English, the others Albanian.
SeedWord(i) == <<Alphabet[i + 2]>>
SeedLanguage(i) == IF i = 2 THEN LangEn ELSE LangSq
SeedContext(s) == [sentenceId |-> s, pageId |-> 1]

\* The database after addVocabWord(SeedWord(i), ..) for i = 1..n at time 1,
\* and a second call with another sentence for the words in twice.
RECURSIVE SeedVocab(_, _)
SeedVocab(n, twice) ==
  IF n = 0 THEN EmptyFn
  ELSE LET prev == SeedVocab(n - 1, twice)
           key == VocabKey(SeedWord(n), SeedLanguage(n))
           one == PutVocab(prev, key,
                    addVocabWordRecord(prev, SeedWord(n), SeedLanguage(n),
                                       SeedContext(1), createCard(1)))
       IN  IF n \in twice
           THEN PutVocab(one, key,
                  addVocabWordRecord(one, SeedWord(n), SeedLanguage(n),
                                     SeedContext(2), createCard(1)))
           ELSE one

RECURSIVE SeedStats(_)
SeedStats(n) ==
  IF n = 0 THEN EmptyFn
  ELSE updateDailyStats(SeedStats(n - 1), SeedLanguage(n), "wordsAdded", 1, 1)

InitSeeded ==
  /\ \E n \in 0..MaxSeed :
       /\ vocab = SeedVocab(n, {})
       /\ dailyStats = SeedStats(n)
  /\ wordReviews = <<>>
  /\ reviewSessions = <<>>
  /\ InitPage

(***************************************************************************)
(* App.handleWordClick -> addVocabWord(word, language, context, card).     *)
(* fail names the request that fails: the put of the word rejects the      *)
(* call; a failure of the nested updateDailyStats leaves it pending.       *)
(***************************************************************************)
\* How the promise of addVocabWord, saveWordReview or saveReviewSession
\* settles when the request named by fail fails.  The store's own request
\* has an onerror handler that rejects.  The nested updateDailyStats is
\* awaited inside the async onsuccess handler, before resolve(): when it
\* rejects, the handler's own promise rejects, which nothing observes, and
\* neither resolve nor reject of the call is ever reached.
NestedUpdateFailures == {"stats", "reviewStats", "sessionStats"}

CallOutcome(fail) ==
  IF fail = "none" THEN "resolved"
  ELSE IF fail \in NestedUpdateFailures THEN "pending"
  ELSE "rejected"

AddVocabWord(word, language, context, fail) ==
  LET key == VocabKey(word, language)
      isNew == key \notin DOMAIN vocab
      rec == addVocabWordRecord(vocab, word, language, context,
                                createCard(now))
  IN  /\ page = "other"
      /\ isNew => Cardinality(DOMAIN vocab) < MaxVocab
      /\ fail # "none" => failures < MaxFailures
      /\ fail = "stats" => isNew
      /\ vocab' = IF fail = "put" THEN vocab ELSE PutVocab(vocab, key, rec)
      /\ dailyStats' = IF isNew /\ fail = "none"
                       THEN updateDailyStats(dailyStats, language,
                                             "wordsAdded", 1, now)
                       ELSE dailyStats
      /\ failures' = IF fail = "none" THEN failures ELSE failures + 1
      /\ lastOp' = [op |-> "addVocabWord", isNew |-> isNew,
                    contextExists |->
                      /\ ~isNew
                      /\ \E i \in 1..Len(vocab[key].contexts) :
                           vocab[key].contexts[i].sentenceId
                             = context.sentenceId,
                    outcome |-> CallOutcome(fail)]
      /\ UNCHANGED <<backup, calls, wordReviews, reviewSessions, now, page,
                     selectedLanguage, pageVars, loads>>

\* VocabPage.handleToggleIgnore -> toggleIgnoreWord(word, language).
ToggleIgnoreFromVocabPage(key) ==
  /\ page = "other"
  /\ key \in DOMAIN vocab
  /\ vocab' = toggleIgnoreWord(vocab, vocab[key].word, vocab[key].language)
  /\ lastOp' = [op |-> "toggleIgnoreWord"]
  /\ UNCHANGED <<backup, calls, wordReviews, reviewSessions, dailyStats, now, page,
                 selectedLanguage, pageVars, failures, loads>>

\* A caller of the service whose view of the vocabulary may be out of date
\* (the list of VocabPage or the queue of ReviewPage after the stores were
\* cleared): updateVocabCard(word, language, card) for any word.
UpdateVocabCardCall(word, language, rating) ==
  LET card == reviewWord(createCard(now), rating, now)
  IN  /\ page = "other"
      /\ vocab' = updateVocabCard(vocab, word, language, card)
      /\ lastOp' = [op |-> "service.updateVocabCard",
                    key |-> VocabKey(word, language),
                    outcome |-> VocabCallOutcome(vocab, word, language)]
      /\ UNCHANGED <<backup, calls, wordReviews, reviewSessions, dailyStats, now,
                     page, selectedLanguage, pageVars, failures, loads>>

\* toggleIgnoreWord(word, language) for any word.
ToggleIgnoreWordCall(word, language) ==
  /\ page = "other"
  /\ vocab' = toggleIgnoreWord(vocab, word, language)
  /\ lastOp' = [op |-> "service.toggleIgnoreWord",
                key |-> VocabKey(word, language),
                outcome |-> VocabCallOutcome(vocab, word, language)]
  /\ UNCHANGED <<backup, calls, wordReviews, reviewSessions, dailyStats, now, page,
                 selectedLanguage, pageVars, failures, loads>>

\* Time passes.
Tick ==
  /\ now < MaxNow
  /\ now' = now + 1
  /\ lastOp' = [op |-> "tick"]
  /\ UNCHANGED <<backup, calls, storeVars, page, selectedLanguage, pageVars, failures,
                 loads>>


(***************************************************************************)
(* ReviewPage: building the queue (loadWordsToReview).                     *)
(***************************************************************************)
CardInQueue(w, bucket) ==
  [word |-> w.word, language |-> w.language, ignored |-> w.ignored,
   fsrsCard |-> w.fsrsCard, contexts |-> w.contexts, bucket |-> bucket]

TagAll(ws, bucket) == [i \in 1..Len(ws) |-> CardInQueue(ws[i], bucket)]

\* Array.prototype.sort with (a, b) => b.contexts.length - a.contexts.length:
\* a stable sort, descending by the number of contexts.
RECURSIVE SortByContextsDesc(_)
SortByContextsDesc(s) ==
  IF s = <<>> THEN <<>>
  ELSE LET x == s[Len(s)]
           rest == SortByContextsDesc(SubSeq(s, 1, Len(s) - 1))
           k == Cardinality({i \in 1..Len(rest) :
                               Len(rest[i].contexts) >= Len(x.contexts)})
       IN  SubSeq(rest, 1, k) \o <<x>> \o SubSeq(rest, k + 1, Len(rest))

\* A variant without the sort: the cap keeps the first cards in store order.
CapNewCards_NoSort(newCards) ==
  IF Len(newCards) > MAX_NEW_CARDS
  THEN SubSeq(newCards, 1, MAX_NEW_CARDS)
  ELSE newCards

\* The new bucket after the cap.
CapNewCards(newCards) ==
  IF Len(newCards) > MAX_NEW_CARDS
  THEN SubSeq(SortByContextsDesc(newCards), 1, MAX_NEW_CARDS)
  ELSE newCards

Rotate(s, k) == [i \in 1..Len(s) |-> s[((i + k - 1) % Len(s)) + 1]]

\* sort(() => Math.random() - 0.5): some permutation of the bucket.  Every
\* permutation of a bucket of at most MaxShuffle entries is an outcome; of
\* a longer bucket the rotations are.
Shuffle(s) ==
  IF Len(s) <= MaxShuffle
  THEN {[i \in 1..Len(s) |-> s[p[i]]] : p \in Permutations(1..Len(s))}
  ELSE {Rotate(s, k) : k \in 0..(Len(s) - 1)}

\* A variant that concatenates the buckets the other way round.
BuildQueues_ReviewFirst(words) ==
  LET newCards == TagAll(SelectSeq(words,
                           LAMBDA w : w.fsrsCard.state = StNew), "new")
      reviewCards == TagAll(SelectSeq(words,
                              LAMBDA w : w.fsrsCard.state # StNew), "review")
  IN  {r \o n : n \in Shuffle(CapNewCards(newCards)),
                r \in Shuffle(reviewCards)}

\* The queues loadWordsToReview can build from the due words.
BuildQueues(words) ==
  LET newCards == TagAll(SelectSeq(words,
                           LAMBDA w : w.fsrsCard.state = StNew), "new")
      reviewCards == TagAll(SelectSeq(words,
                              LAMBDA w : w.fsrsCard.state # StNew), "review")
  IN  {n \o r : n \in Shuffle(CapNewCards(newCards)),
                r \in Shuffle(reviewCards)}

\* loadWordsToReview for the language filter lang; sessionStartTime is not
\* among the state it sets.
loadWordsToReview(lang) ==
  /\ loads < MaxLoads
  /\ loads' = loads + 1
  /\ reviewQueue' \in BuildQueues(getWordsDueForReview(vocab, lang, now))
  /\ currentIndex' = 0
  /\ sessionComplete' = FALSE
  /\ reviewedCount' = 0

(***************************************************************************)
(* ReviewPage: what is rendered.                                           *)
(***************************************************************************)
\* A variant without the first guard of the render.
ShowsAllCaughtUp_NoGuard == FALSE

\* "All Caught Up!", with the Check Again button.
ShowsAllCaughtUp == reviewQueue = <<>> /\ ~sessionComplete

\* "Ready to Review?", with the Start Review button: NotStarted.
ShowsReady ==
  ~ShowsAllCaughtUp /\ sessionStartTime = NoTime /\ ~sessionComplete

\* "Session Complete!", with the Review Again button: Complete.
ShowsComplete == ~ShowsAllCaughtUp /\ ~ShowsReady /\ sessionComplete

\* Past the three guards: Active.
Active ==
  page = "review" /\ ~ShowsAllCaughtUp /\ ~ShowsReady /\ ~ShowsComplete

\* The card screen with its rating buttons and the ignore menu.
CardShown == Active /\ currentIndex < Len(reviewQueue)

\* A variant that does not drop the entries before the index.
Slice_Whole(q, k) == q

\* Array.prototype.slice(k): the entries from index k (0-based) on, none
\* when k is at or past the end.
Slice(q, k) == IF k >= Len(q) THEN <<>> ELSE SubSeq(q, k + 1, Len(q))

\* reviewQueue.slice(currentIndex).filter((c) => c.bucket === bucket).length
BucketCount(bucket) ==
  Len(SelectSeq(Slice(reviewQueue, currentIndex),
                LAMBDA c : c.bucket = bucket))

\* The remaining counts the card view shows.
newCount == BucketCount("new")
learningCount == BucketCount("learning")
reviewCount == BucketCount("review")

(***************************************************************************)
(* ReviewPage: mounting, leaving, language change, reload, start.          *)
(***************************************************************************)
MountReviewPage ==
  /\ page = "other"
  /\ page' = "review"
  /\ sessionStartTime' = NoTime
  /\ loadWordsToReview(selectedLanguage)
  /\ lastOp' = [op |-> "mount"]
  /\ UNCHANGED <<backup, calls, storeVars, now, selectedLanguage, failures>>

LeaveReviewPage ==
  /\ page = "review"
  /\ page' = "other"
  /\ reviewQueue' = <<>>
  /\ currentIndex' = 0
  /\ sessionStartTime' = NoTime
  /\ reviewedCount' = 0
  /\ sessionComplete' = FALSE
  /\ lastOp' = [op |-> "leave"]
  /\ UNCHANGED <<backup, calls, storeVars, now, selectedLanguage, failures, loads>>

\* App.handleLanguageChange while the review page is mounted; the effect on
\* [selectedLanguage] reloads.  (A change made on another page only sets the
\* value the next mount reads.)
ChangeLanguage(lang) ==
  /\ page = "review"
  /\ lang # selectedLanguage
  /\ selectedLanguage' = lang
  /\ loadWordsToReview(lang)
  /\ UNCHANGED sessionStartTime
  /\ lastOp' = [op |-> "changeLanguage", language |-> lang]
  /\ UNCHANGED <<backup, calls, storeVars, now, page, failures>>

\* The Check Again and Review Again buttons.
ReloadWords ==
  /\ page = "review"
  /\ ShowsAllCaughtUp \/ ShowsComplete
  /\ loadWordsToReview(selectedLanguage)
  /\ lastOp' = [op |-> "reload"]
  /\ UNCHANGED <<backup, calls, storeVars, now, page, selectedLanguage, sessionStartTime,
                 failures>>

StartSession ==
  /\ page = "review"
  /\ ShowsReady
  /\ sessionStartTime' = now
  /\ lastOp' = [op |-> "start"]
  /\ UNCHANGED <<backup, calls, storeVars, now, page, selectedLanguage, reviewQueue,
                 currentIndex, reviewedCount, sessionComplete, failures,
                 loads>>


(***************************************************************************)
(* ReviewPage.handleRating.  The handler reads the queue, the index and    *)
(* the counters of the render it was created in; the state setters it has  *)
(* called take effect also when a later await never returns.               *)
(*                                                                         *)
(* fail names the storage request that fails.  A failed get or put of      *)
(* updateVocabCard, a failed add of the review and a failed put of the     *)
(* session reject the awaited call, which ends the handler; a failed       *)
(* updateDailyStats inside saveWordReview or saveReviewSession leaves the  *)
(* awaited call pending, which stops the handler at that await.            *)
(***************************************************************************)
RateFailPoints ==
  <<"updateVocabCard", "wordReviews.add", "reviewStats", "sessions.put",
    "sessionStats", "none">>

\* The number of storage steps handleRating completes before it stops.
RateStage(fail) == (CHOOSE i \in 1..6 : RateFailPoints[i] = fail) - 1

\* A variant without the offset: the copy always goes to the end of the queue.
insertPosition_AtEnd(index, len) == len

insertPosition(index, len) == Min(index + ReinsertOffset, len)

\* newQueue.splice(pos, 0, x)
Splice(q, pos, x) == SubSeq(q, 1, pos) \o <<x>> \o SubSeq(q, pos + 1, Len(q))

\* The queue after a rating of the card at index: an Again rating puts a
\* learning copy with the new card back in.
QueueAfterRating(queue, index, rating, card) ==
  IF rating = Again
  THEN Splice(queue, insertPosition(index, Len(queue)),
              [queue[index + 1] EXCEPT !.fsrsCard = card,
                                       !.bucket = "learning"])
  ELSE queue

\* nextIndex >= reviewQueue.length, on the queue of the handler's render.
IsLastCard(queue, index) == index + 1 >= Len(queue)

\* The ReviewSession record the two handlers save.
SessionRecord(wordCount) ==
  [language |-> selectedLanguage, wordCount |-> wordCount,
   duration |-> now - sessionStartTime]

\* saveReviewSession's nested updateDailyStats.
StatsAfterSession(stats, session, t) ==
  updateDailyStats(stats, session.language, "reviewCount",
                   session.wordCount, t)

\* saveWordReview's nested updateDailyStats.
StatsAfterReview(stats, review, t) ==
  updateDailyStats(stats, review.language, "reviewCount", 1, t)

HandleRating(rating, fail) ==
  LET cur == reviewQueue[currentIndex + 1]
      key == VocabKey(cur.word, cur.language)
      card == reviewWord(cur.fsrsCard, rating, now)
      review == [word |-> cur.word, language |-> cur.language,
                 rating |-> rating, reviewedAt |-> DateOf(now)]
      thrown == ~RatingFound(rating)
      stage == IF thrown THEN 0
               ELSE IF key \in DOMAIN vocab THEN RateStage(fail) ELSE 0
      last == IsLastCard(reviewQueue, currentIndex)
      session == SessionRecord(Len(reviewQueue))
      stats1 == IF stage >= 3
                THEN StatsAfterReview(dailyStats, review, now)
                ELSE dailyStats
  IN  /\ CardShown
      /\ Len(wordReviews) < MaxReviews
      /\ fail # "none" => failures < MaxFailures
      /\ fail # "none" => ~thrown
      /\ fail \in {"sessions.put", "sessionStats"} =>
           last /\ sessionStartTime # NoTime
      /\ vocab' = IF stage >= 1
                  THEN updateVocabCard(vocab, cur.word, cur.language, card)
                  ELSE vocab
      /\ wordReviews' = IF stage >= 2
                        THEN Append(wordReviews, review)
                        ELSE wordReviews
      /\ reviewQueue' = IF stage >= 3
                        THEN QueueAfterRating(reviewQueue, currentIndex,
                                              rating, card)
                        ELSE reviewQueue
      /\ reviewedCount' = IF stage >= 3
                          THEN reviewedCount + 1
                          ELSE reviewedCount
      /\ IF last
         THEN /\ reviewSessions' =
                   IF stage >= 4 /\ sessionStartTime # NoTime
                   THEN Append(reviewSessions, session)
                   ELSE reviewSessions
              /\ dailyStats' =
                   IF stage >= 5 /\ sessionStartTime # NoTime
                   THEN StatsAfterSession(stats1, session, now)
                   ELSE stats1
              /\ sessionComplete' = (stage >= 5)
              /\ currentIndex' = currentIndex
         ELSE /\ dailyStats' = stats1
              /\ currentIndex' = IF stage >= 3
                                 THEN currentIndex + 1
                                 ELSE currentIndex
              /\ UNCHANGED <<reviewSessions, sessionComplete>>
      /\ failures' = IF fail = "none" THEN failures ELSE failures + 1
      /\ lastOp' = [op |-> "rate", rating |-> rating,
                    index |-> currentIndex, fail |-> fail,
                    wasLast |-> last,
                    outcome |-> IF thrown THEN "rejected"
                                ELSE CallOutcome(fail)]
      /\ UNCHANGED <<backup, calls, now, page, selectedLanguage, sessionStartTime, loads>>

(***************************************************************************)
(* ReviewPage.handleIgnoreWord.                                            *)
(***************************************************************************)
IgnoreFailPoints == <<"toggleIgnoreWord", "sessions.put", "sessionStats",
                      "none">>

IgnoreStage(fail) == (CHOOSE i \in 1..4 : IgnoreFailPoints[i] = fail) - 1

\* reviewQueue.filter((_, i) => i !== currentIndex)
QueueAfterIgnore(queue, index) ==
  SelectSeqIdx(queue, LAMBDA i : i # index + 1, 1)

\* updatedQueue.length === 0
IgnoreEndsSession(updatedQueue) == Len(updatedQueue) = 0

HandleIgnoreWord(fail) ==
  LET cur == reviewQueue[currentIndex + 1]
      key == VocabKey(cur.word, cur.language)
      stage == IF key \in DOMAIN vocab THEN IgnoreStage(fail) ELSE 0
      updatedQueue == QueueAfterIgnore(reviewQueue, currentIndex)
      ends == IgnoreEndsSession(updatedQueue)
      session == SessionRecord(reviewedCount)
  IN  /\ CardShown
      /\ fail # "none" => failures < MaxFailures
      /\ fail \in {"sessions.put", "sessionStats"} =>
           ends /\ sessionStartTime # NoTime
      /\ vocab' = IF stage >= 1
                  THEN toggleIgnoreWord(vocab, cur.word, cur.language)
                  ELSE vocab
      /\ reviewQueue' = IF stage >= 1 THEN updatedQueue ELSE reviewQueue
      /\ IF ends
         THEN /\ reviewSessions' =
                   IF stage >= 2 /\ sessionStartTime # NoTime
                   THEN Append(reviewSessions, session)
                   ELSE reviewSessions
              /\ dailyStats' =
                   IF stage >= 3 /\ sessionStartTime # NoTime
                   THEN StatsAfterSession(dailyStats, session, now)
                   ELSE dailyStats
              /\ sessionComplete' = (stage >= 3)
         ELSE UNCHANGED <<reviewSessions, dailyStats, sessionComplete>>
      /\ failures' = IF fail = "none" THEN failures ELSE failures + 1
      /\ lastOp' = [op |-> "ignore", index |-> currentIndex, fail |-> fail,
                    ended |-> ends, outcome |-> CallOutcome(fail)]
      /\ UNCHANGED <<backup, calls, wordReviews, now, page, selectedLanguage, currentIndex,
                     sessionStartTime, reviewedCount, loads>>

(***************************************************************************)
(* Specifications.                                                         *)
(***************************************************************************)
AddVocabWordStep ==
  \E word \in Words, language \in Languages, context \in Contexts,
     fail \in {"none", "put", "stats"} :
    AddVocabWord(word, language, context, fail)

ToggleIgnoreStep == \E key \in DOMAIN vocab : ToggleIgnoreFromVocabPage(key)

ChangeLanguageStep == \E lang \in Filters : ChangeLanguage(lang)

HandleRatingStep ==
  \E rating \in RatingInputs, fail \in Range(RateFailPoints) :
    HandleRating(rating, fail)

HandleIgnoreWordStep ==
  \E fail \in Range(IgnoreFailPoints) : HandleIgnoreWord(fail)

\* Review sessions over a filled database.
Next ==
  \/ Tick
  \/ MountReviewPage
  \/ LeaveReviewPage
  \/ ChangeLanguageStep
  \/ ReloadWords
  \/ StartSession
  \/ HandleRatingStep
  \/ HandleIgnoreWordStep

Spec == InitSeeded /\ [][Next]_vars

\* The vocabulary store from an empty database.
NextVocab ==
  \/ AddVocabWordStep
  \/ ToggleIgnoreStep
  \/ Tick

SpecVocab == InitEmpty /\ [][NextVocab]_vars

\* Review sessions over a long queue, without storage failures.
InitLong ==
  /\ \E n \in (ReinsertOffset + 1)..MaxLong :
       /\ vocab = SeedVocab(n, {})
       /\ dailyStats = SeedStats(n)
  /\ wordReviews = <<>>
  /\ reviewSessions = <<>>
  /\ InitPage

RateNoFailure == \E rating \in Ratings : HandleRating(rating, "none")

IgnoreNoFailure == HandleIgnoreWord("none")

NextLong ==
  \/ MountReviewPage
  \/ StartSession
  \/ RateNoFailure
  \/ IgnoreNoFailure

SpecLong == InitLong /\ [][NextLong]_vars

\* Building the queue from a database with more due new words than the
\* cap, some of them seen in two sentences.
InitQueue ==
  /\ \E n \in (MAX_NEW_CARDS - 1)..MaxDueNew :
       \E twice \in SUBSET (1..n) :
         /\ Cardinality(twice) <= MaxHigh
         /\ vocab = SeedVocab(n, twice)
         /\ dailyStats = SeedStats(n)
  /\ wordReviews = <<>>
  /\ reviewSessions = <<>>
  /\ InitPage

NextQueue ==
  \/ MountReviewPage
  \/ StartSession

SpecQueue == InitQueue /\ [][NextQueue]_vars

\* StatsPage.loadStats -> getStreak(selectedLanguage).  The query changes
\* no store, so one query per behaviour shows all it can return.
GetStreak(language, fallBack) ==
  /\ lastOp.op = "init"
  /\ lastOp' = [op |-> "getStreak", language |-> language,
                fallBack |-> fallBack,
                result |-> getStreak(dailyStats, language, DateOf(now),
                                     fallBack)]
  /\ UNCHANGED <<backup, calls, storeVars, now, page, selectedLanguage, pageVars, failures,
                 loads>>

\* The time zones: no change of the clock, or one day on which it is set
\* back.
FallBackChoices == {{}} \cup {{d} : d \in 0..MaxDay}

GetStreakStep ==
  \E language \in Filters, fallBack \in FallBackChoices :
    GetStreak(language, fallBack)

\* The rows a language can have on one day: none, one without reviews (a
\* word was added), one with reviews.
StatRowChoices == {"none", "added", "reviewed"}

\* The streak over the daily stats of the days up to today.
InitStreak ==
  /\ \E today \in 0..MaxDay :
       /\ now = today * DayTicks
       /\ \E choice \in [(0..today) \X Languages -> StatRowChoices] :
            dailyStats =
              [key \in {k \in (0..today) \X Languages : choice[k] # "none"}
                 |-> [date |-> key[1], language |-> key[2],
                      reviewCount |->
                        IF choice[key] = "reviewed" THEN 1 ELSE 0,
                      wordsAdded |->
                        IF choice[key] = "added" THEN 1 ELSE 0]]
  /\ vocab = EmptyFn
  /\ wordReviews = <<>>
  /\ reviewSessions = <<>>
  /\ page = "other"
  /\ selectedLanguage = LangAll
  /\ reviewQueue = <<>>
  /\ currentIndex = 0
  /\ sessionStartTime = NoTime
  /\ reviewedCount = 0
  /\ sessionComplete = FALSE
  /\ failures = 0
  /\ loads = 0
  /\ calls = <<>>
  /\ backup = NoBackup
  /\ lastOp = [op |-> "init"]

NextStreak == GetStreakStep

SpecStreak == InitStreak /\ [][NextStreak]_vars

(***************************************************************************)
(* updateDailyStats issued several times before the earlier calls have     *)
(* finished (two quick clicks on words, a rating and the end of a session).*)
(* Each call opens one readwrite transaction on the dailyStats store and   *)
(* issues its put from the onsuccess of its get, inside that transaction.  *)
(* IndexedDB starts a readwrite transaction only when every transaction    *)
(* created before it on the same store has finished.                       *)
(***************************************************************************)
Increments == {1, 2}

FreshStatsRow(date, language) ==
  [date |-> date, language |-> language, reviewCount |-> 0, wordsAdded |-> 0]

\* stats[field] += increment
StatsRowPlus(row, field, increment) ==
  IF field = "reviewCount"
  THEN [row EXCEPT !.reviewCount = @ + increment]
  ELSE [row EXCEPT !.wordsAdded = @ + increment]

\* A variant in which a transaction does not wait for the earlier ones.
TransactionCanStart_NoWait(cs, i) == TRUE

\* The i-th transaction may run its requests.
TransactionCanStart(cs, i) == \A j \in 1..(i - 1) : cs[j].pc = "done"

\* The call reaches db.transaction(...): date and key are fixed.
UpdateDailyStatsCall(language, field, increment) ==
  /\ Len(calls) < MaxCalls
  /\ calls' = Append(calls,
                [language |-> language, field |-> field,
                 increment |-> increment, date |-> DateOf(now),
                 pc |-> "waiting",
                 row |-> FreshStatsRow(DateOf(now), language),
                 overlap |-> \E j \in 1..Len(calls) : calls[j].pc # "done"])
  /\ lastOp' = [op |-> "updateDailyStats"]
  /\ UNCHANGED <<backup, storeVars, now, page, selectedLanguage, pageVars, failures,
                 loads>>

\* getRequest.onsuccess: the row under the key, or a fresh one.
UpdateDailyStatsGet(i) ==
  LET c == calls[i]
      key == <<c.date, c.language>>
  IN  /\ c.pc = "waiting"
      /\ TransactionCanStart(calls, i)
      /\ calls' = [calls EXCEPT
                     ![i].pc = "read",
                     ![i].row = IF key \in DOMAIN dailyStats
                                THEN dailyStats[key]
                                ELSE FreshStatsRow(c.date, c.language)]
      /\ lastOp' = [op |-> "updateDailyStats.get"]
      /\ UNCHANGED <<backup, storeVars, now, page, selectedLanguage, pageVars,
                     failures, loads>>

\* store.put(stats) and putRequest.onsuccess.
UpdateDailyStatsPut(i) ==
  LET c == calls[i]
      key == <<c.date, c.language>>
      new == StatsRowPlus(c.row, c.field, c.increment)
  IN  /\ c.pc = "read"
      /\ dailyStats' = [k \in DOMAIN dailyStats \cup {key} |->
                          IF k = key THEN new ELSE dailyStats[k]]
      /\ calls' = [calls EXCEPT ![i].pc = "done"]
      /\ lastOp' = [op |-> "updateDailyStats.put"]
      /\ UNCHANGED <<backup, vocab, wordReviews, reviewSessions, now, page,
                     selectedLanguage, pageVars, failures, loads>>

UpdateDailyStatsCallStep ==
  \E language \in Languages, field \in {"reviewCount", "wordsAdded"},
     increment \in Increments :
    UpdateDailyStatsCall(language, field, increment)

UpdateDailyStatsGetStep == \E i \in 1..Len(calls) : UpdateDailyStatsGet(i)

UpdateDailyStatsPutStep == \E i \in 1..Len(calls) : UpdateDailyStatsPut(i)

NextStats ==
  \/ UpdateDailyStatsCallStep
  \/ UpdateDailyStatsGetStep
  \/ UpdateDailyStatsPutStep
  \/ Tick

SpecStats == InitSeeded /\ [][NextStats]_vars

(***************************************************************************)
(* Settings: exportAllData and importAllData.  Of the seven stores the     *)
(* four of the vocabulary and its reviews are modelled.                    *)
(***************************************************************************)
\* JSON.parse(JSON.stringify(card)): a Date is written by toJSON as its ISO
\* string, which has the millisecond precision of the Date, and is read
\* back as a string.
JsonCard(card) == [card EXCEPT !.dates = "string"]

\* A vocabulary record as it is in the file; word_language is the key path.
JsonVocabWord(key, w) ==
  [word_language |-> key, word |-> w.word, language |-> w.language,
   ignored |-> w.ignored, fsrsCard |-> JsonCard(w.fsrsCard),
   contexts |-> w.contexts]

\* exportAllData: getAll() of each store, in key order.
exportAllData(v, wr, rs, ds) ==
  LET vkeys == KeyOrder(DOMAIN v)
      dkeys == StatKeyOrder(DOMAIN ds)
  IN  [vocab |-> [i \in 1..Len(vkeys) |-> JsonVocabWord(vkeys[i], v[vkeys[i]])],
       wordReviews |-> wr,
       reviewSessions |-> rs,
       dailyStats |-> [i \in 1..Len(dkeys) |-> ds[dkeys[i]]]]

\* store.add(item) for the items from the i-th on; an add whose key is taken
\* fails, is logged and counted as done.
RECURSIVE AddVocabItems(_, _, _)
AddVocabItems(store, items, i) ==
  IF i > Len(items) THEN store
  ELSE LET it == items[i]
           rec == [word |-> it.word, language |-> it.language,
                   ignored |-> it.ignored, fsrsCard |-> it.fsrsCard,
                   contexts |-> it.contexts]
       IN  AddVocabItems(IF it.word_language \in DOMAIN store
                         THEN store
                         ELSE PutVocab(store, it.word_language, rec),
                         items, i + 1)

RECURSIVE AddStatRows(_, _, _)
AddStatRows(stats, rows, i) ==
  IF i > Len(rows) THEN stats
  ELSE LET key == <<rows[i].date, rows[i].language>>
       IN  AddStatRows(IF key \in DOMAIN stats
                       THEN stats
                       ELSE [k \in DOMAIN stats \cup {key} |->
                               IF k = key THEN rows[i] ELSE stats[k]],
                       rows, i + 1)

\* A variant of the vocabulary import without the clear.
ImportVocab_NoClear(store, items) == AddVocabItems(store, items, 1)

\* importAllData on the vocab store: importToStore (clear, then add every
\* item) when the file has items, clearStore when it has none.
ImportVocab(store, items) == AddVocabItems(EmptyFn, items, 1)

ImportStats(stats, rows) == AddStatRows(EmptyFn, rows, 1)

\* Export to a file.  The model keeps, beside the file, the stores as they
\* were when it was written (history).
ExportAllData ==
  /\ page = "other"
  /\ ~backup.taken
  /\ backup' = [taken |-> TRUE,
                data |-> exportAllData(vocab, wordReviews, reviewSessions,
                                       dailyStats),
                origin |-> [vocab |-> vocab, wordReviews |-> wordReviews,
                            reviewSessions |-> reviewSessions,
                            dailyStats |-> dailyStats]]
  /\ lastOp' = [op |-> "export"]
  /\ UNCHANGED <<calls, storeVars, now, page, selectedLanguage, pageVars,
                 failures, loads>>

\* Import of the file into the database as it is now.
ImportAllData ==
  /\ page = "other"
  /\ backup.taken
  /\ lastOp.op # "import"
  /\ vocab' = ImportVocab(vocab, backup.data.vocab)
  /\ reviewSessions' = backup.data.reviewSessions
  /\ dailyStats' = ImportStats(dailyStats, backup.data.dailyStats)
  /\ wordReviews' = backup.data.wordReviews
  /\ lastOp' = [op |-> "import"]
  /\ UNCHANGED <<calls, backup, now, page, selectedLanguage, pageVars,
                 failures, loads>>

\* The database after n words were added and, when reviewed, the first of
\* them was rated Good in a session of its own on the filter "all".
InitBackup ==
  /\ \E n \in 0..MaxSeed, reviewed \in BOOLEAN :
       LET v == SeedVocab(n, {1})
           w == v[VocabKey(SeedWord(1), SeedLanguage(1))]
           review == [word |-> w.word, language |-> w.language,
                      rating |-> Good, reviewedAt |-> DateOf(1)]
           session == [language |-> LangAll, wordCount |-> 1, duration |-> 0]
       IN  /\ reviewed => n >= 1
           /\ vocab = IF reviewed
                      THEN updateVocabCard(v, w.word, w.language,
                                           reviewWord(w.fsrsCard, Good, 1))
                      ELSE v
           /\ wordReviews = IF reviewed THEN <<review>> ELSE <<>>
           /\ reviewSessions = IF reviewed THEN <<session>> ELSE <<>>
           /\ dailyStats =
                IF reviewed
                THEN StatsAfterSession(
                       StatsAfterReview(SeedStats(n), review, 1), session, 1)
                ELSE SeedStats(n)
  /\ InitPage

AddSeenWord ==
  \E word \in {<<"m">>, <<"M">>}, context \in {SeedContext(1)} :
    AddVocabWord(word, LangSq, context, "none")

ToggleIgnoreStored ==
  \E key \in DOMAIN vocab : ToggleIgnoreFromVocabPage(key)

NextBackup ==
  \/ ExportAllData
  \/ ImportAllData
  \/ AddSeenWord
  \/ ToggleIgnoreStored
  \/ Tick

SpecBackup == InitBackup /\ [][NextBackup]_vars

\* The service called directly, on stored and on unknown words, without
\* storage failures.
AddVocabWordOk ==
  \E word \in Words, language \in Languages,
     context \in {SeedContext(1), SeedContext(2)} :
    AddVocabWord(word, language, context, "none")

UpdateVocabCardStep ==
  \E word \in Words, language \in Languages, rating \in {Again, Good} :
    UpdateVocabCardCall(word, language, rating)

ToggleIgnoreWordStep ==
  \E word \in Words, language \in Languages :
    ToggleIgnoreWordCall(word, language)

NextStore ==
  \/ AddVocabWordOk
  \/ UpdateVocabCardStep
  \/ ToggleIgnoreWordStep
  \/ Tick

SpecStore == InitEmpty /\ [][NextStore]_vars

(***************************************************************************)
(* Properties.                                                             *)
(***************************************************************************)
NoDupContexts(store) ==
  \A key \in DOMAIN store :
    \A i, j \in 1..Len(store[key].contexts) :
      store[key].contexts[i].sentenceId = store[key].contexts[j].sentenceId
        => i = j

HasSentence(contexts, context) ==
  \E i \in 1..Len(contexts) : contexts[i].sentenceId = context.sentenceId

\* C1: no stored word ever has two contexts with the same sentenceId; an
\* addVocabWord call for a stored word leaves its context list unchanged
\* when the list holds the sentenceId of the given context, and otherwise
\* makes it the old list with the context appended at the end.
C1_ContextDedup ==
  [][/\ NoDupContexts(vocab) /\ NoDupContexts(vocab')
     /\ \A word \in Words, language \in Languages, context \in Contexts :
          LET key == VocabKey(word, language)
          IN  (/\ key \in DOMAIN vocab
               /\ lastOp'.op = "addVocabWord"
               /\ AddVocabWord(word, language, context, "none"))
              => vocab'[key].contexts =
                   IF HasSentence(vocab[key].contexts, context)
                   THEN vocab[key].contexts
                   ELSE vocab[key].contexts \o <<context>>]_vars

\* C1 witness: a call found its sentenceId stored, in a database where
\* another call has appended a second context.
C1_Witness ==
  /\ lastOp.op = "addVocabWord"
  /\ lastOp.contextExists
  /\ lastOp.outcome = "resolved"
  /\ \E key \in DOMAIN vocab : Len(vocab[key].contexts) = 2

CurrentCard == reviewQueue[currentIndex + 1]

\* C2 (as claimed): a rate() call raises today's reviewCount of the card's
\* language by exactly 1, the call that completes the session included.
C2_ReviewCountPerRate ==
  [][\A rating \in Ratings :
       HandleRating(rating, "none")
       => ReviewCountOf(dailyStats', DateOf(now), CurrentCard.language)
            = ReviewCountOf(dailyStats, DateOf(now), CurrentCard.language) + 1
    ]_vars

RemoveAt(q, k) == SubSeq(q, 1, k - 1) \o SubSeq(q, k + 1, Len(q))

\* C3: rate(Again) on the card at index i of a queue of length len makes
\* the queue the old one with one entry added at index min(i + 4, len), a
\* copy of that word tagged learning; any other rating leaves the queue as
\* it is.
C3_AgainRequeue ==
  [][\A rating \in Ratings :
       HandleRating(rating, "none")
       => LET i == currentIndex
              len == Len(reviewQueue)
              pos == IF i + 4 < len THEN i + 4 ELSE len
          IN  IF rating = Again
              THEN /\ Len(reviewQueue') = len + 1
                   /\ RemoveAt(reviewQueue', pos + 1) = reviewQueue
                   /\ reviewQueue'[pos + 1].word = CurrentCard.word
                   /\ reviewQueue'[pos + 1].language = CurrentCard.language
                   /\ reviewQueue'[pos + 1].bucket = "learning"
              ELSE reviewQueue' = reviewQueue]_vars

\* C3 witness: an Again rating has put the copy four places on, before
\* the end of the queue.
C3_Witness ==
  /\ lastOp.op = "rate"
  /\ lastOp.rating = Again
  /\ lastOp.index + 4 < Len(reviewQueue) - 1
  /\ reviewQueue[lastOp.index + 5].bucket = "learning"
  /\ reviewQueue[lastOp.index + 5].word = reviewQueue[lastOp.index + 1].word

\* C4 (as claimed): a card rated Again is presented again before the
\* session is Complete, so a Complete session has no learning copy after
\* the last card presented.
C4_AgainResurfaces ==
  (page = "review" /\ sessionComplete)
    => \A k \in (currentIndex + 2)..Len(reviewQueue) :
         reviewQueue[k].bucket # "learning"

\* C5 (as claimed): ignore() on the only entry not yet rated makes the
\* session Complete and persists a record whose wordCount is the number of
\* cards rated so far.
C5_IgnoreLastCompletes ==
  [][(HandleIgnoreWord("none") /\ currentIndex = Len(reviewQueue) - 1)
       => /\ sessionComplete'
          /\ Len(reviewSessions') = Len(reviewSessions) + 1
          /\ reviewSessions'[Len(reviewSessions')].wordCount = reviewedCount
    ]_vars

\* C6 (as claimed): in an Active session the queue pointer addresses an
\* entry of the queue.
C6_ActiveHasCurrentCard == Active => currentIndex < Len(reviewQueue)

\* C7 (as claimed): a rate() call one of whose storage writes fails leaves
\* the stored cards, the review events, the daily stats and the queue
\* pointer as they were.
C7_RateAtomic ==
  [][\A rating \in Ratings, fail \in Range(RateFailPoints) \ {"none"} :
       HandleRating(rating, fail)
       => /\ vocab' = vocab
          /\ wordReviews' = wordReviews
          /\ dailyStats' = dailyStats
          /\ currentIndex' = currentIndex]_vars

\* The due words in state New under the page's language filter, from the
\* store.
DueNewKeys ==
  {key \in DOMAIN vocab :
     /\ ~vocab[key].ignored
     /\ selectedLanguage = LangAll \/ vocab[key].language = selectedLanguage
     /\ vocab[key].fsrsCard.due <= now
     /\ vocab[key].fsrsCard.state = StNew}

NewInQueue ==
  {VocabKey(reviewQueue[i].word, reviewQueue[i].language) :
     i \in {j \in 1..Len(reviewQueue) : reviewQueue[j].bucket = "new"}}

\* C8: in a queue just built, when more than 20 new words are due it
\* holds exactly 20 new-tagged entries and no word left out has more
\* contexts than a selected one; when at most 20 are due it holds them all.
C8_NewCap ==
  lastOp.op \in {"mount", "start"}
    => /\ NewInQueue \subseteq DueNewKeys
       /\ Cardinality(NewInQueue)
            = Cardinality({i \in 1..Len(reviewQueue) :
                             reviewQueue[i].bucket = "new"})
       /\ IF Cardinality(DueNewKeys) > 20
          THEN /\ Cardinality(NewInQueue) = 20
               /\ \A in \in NewInQueue, out \in DueNewKeys \ NewInQueue :
                    Len(vocab[in].contexts) >= Len(vocab[out].contexts)
          ELSE NewInQueue = DueNewKeys

\* C8 witness: more words are due than the cap, and a word with two
\* contexts that the store lists after the first 20 is in the queue while a
\* word with one context is not.
C8_Witness ==
  /\ lastOp.op = "mount"
  /\ Cardinality(DueNewKeys) > 20
  /\ VocabKey(SeedWord(21), SeedLanguage(21)) \in NewInQueue
  /\ \E out \in DueNewKeys \ NewInQueue : Len(vocab[out].contexts) = 1

\* C9: for every language filter getWordsDueForReview returns, each once,
\* exactly the stored words that are not ignored, match the filter and are
\* due at or before now.
C9_DueWords ==
  \A filter \in Filters :
    LET due == getWordsDueForReview(vocab, filter, now)
        keys == {VocabKey(due[i].word, due[i].language) : i \in 1..Len(due)}
    IN  /\ keys = {key \in DOMAIN vocab :
                     /\ ~vocab[key].ignored
                     /\ filter = LangAll \/ vocab[key].language = filter
                     /\ vocab[key].fsrsCard.due <= now}
        /\ Cardinality(keys) = Len(due)
        /\ \A i \in 1..Len(due) :
             due[i] = vocab[VocabKey(due[i].word, due[i].language)]

\* C9 witness: the store holds an ignored word whose card is due, a word
\* due in the future, and due words of both languages that are returned.
C9_Witness ==
  /\ \E key \in DOMAIN vocab :
       vocab[key].ignored /\ vocab[key].fsrsCard.due <= now
  /\ \E key \in DOMAIN vocab :
       ~vocab[key].ignored /\ vocab[key].fsrsCard.due > now
  /\ Len(getWordsDueForReview(vocab, LangEn, now)) > 0
  /\ Len(getWordsDueForReview(vocab, LangSq, now))
       < Len(getWordsDueForReview(vocab, LangAll, now))

\* Day d has a row matching the filter with reviewCount > 0.
Reviewed(d, filter) ==
  \E key \in DOMAIN dailyStats :
    /\ dailyStats[key].date = d
    /\ filter = LangAll \/ dailyStats[key].language = filter
    /\ dailyStats[key].reviewCount > 0

StreakIsLongestRun ==
  LET today == DateOf(now)
      k == lastOp.result
  IN  /\ k \in 0..(today + 1)
      /\ \A j \in 0..(k - 1) : Reviewed(today - j, lastOp.language)
      /\ k <= today => ~Reviewed(today - k, lastOp.language)

\* C10 (as claimed): getStreak returns the largest k such that each of the
\* k days ending today has a row matching the filter with reviewCount > 0.
C10_Streak == lastOp.op = "getStreak" => StreakIsLongestRun

\* Where the local clock is never set back, getStreak does return that k.
StreakWithoutClockChange ==
  (lastOp.op = "getStreak" /\ lastOp.fallBack = {}) => StreakIsLongestRun

\* Such a case: under the filter "all", today and yesterday are reviewed,
\* today in both languages, the day before is not, the day before that is,
\* and the streak is 2.
StreakGapWitness ==
  /\ lastOp.op = "getStreak"
  /\ lastOp.fallBack = {}
  /\ lastOp.language = LangAll
  /\ lastOp.result = 2
  /\ DateOf(now) >= 3
  /\ Reviewed(DateOf(now), LangSq) /\ Reviewed(DateOf(now), LangEn)
  /\ ~Reviewed(DateOf(now) - 2, LangAll)
  /\ Reviewed(DateOf(now) - 3, LangAll)

\* C11: updateVocabCard and toggleIgnoreWord for a key that is not stored
\* reject with the not-found error and leave the vocabulary store as it was.
C11_NotFound ==
  [][(/\ lastOp'.op \in {"service.updateVocabCard",
                         "service.toggleIgnoreWord"}
      /\ lastOp'.key \notin DOMAIN vocab)
     => /\ vocab' = vocab
        /\ lastOp'.outcome.settled = "rejected"
        /\ lastOp'.outcome.error = "Vocab word not found"]_vars

\* C11 witness: toggleIgnoreWord was called for a word that is not stored,
\* beside a stored word of the other language with the same spelling.
C11_Witness ==
  /\ lastOp.op = "service.toggleIgnoreWord"
  /\ lastOp.outcome.settled = "rejected"
  /\ lastOp.key = VocabKey(<<"m">>, LangEn)
  /\ DOMAIN vocab = {VocabKey(<<"m">>, LangSq)}

\* The counter of a row, 0 when the row does not exist.
StatValue(stats, key, field) ==
  IF key \notin DOMAIN stats THEN 0
  ELSE IF field = "reviewCount" THEN stats[key].reviewCount
  ELSE stats[key].wordsAdded

\* The sum of the increments of the calls for a key and a field.
RECURSIVE SumIncrements(_, _, _)
SumIncrements(cs, key, field) ==
  IF cs = <<>> THEN 0
  ELSE (IF <<cs[1].date, cs[1].language>> = key /\ cs[1].field = field
        THEN cs[1].increment ELSE 0)
       + SumIncrements(Tail(cs), key, field)

\* C12: once all updateDailyStats calls have finished, each counter is its
\* value before the calls plus the sum of the increments of the calls for
\* its key, whatever the interleaving, and a key that was updated has its
\* row.
C12_NoLostUpdate ==
  (\A i \in 1..Len(calls) : calls[i].pc = "done")
    => \A date \in 0..DateOf(MaxNow), language \in Languages,
          field \in {"reviewCount", "wordsAdded"} :
         LET key == <<date, language>>
             before == SeedStats(Cardinality(DOMAIN vocab))
         IN  /\ StatValue(dailyStats, key, field)
                  = StatValue(before, key, field)
                    + SumIncrements(calls, key, field)
             /\ (\E i \in 1..Len(calls) :
                   <<calls[i].date, calls[i].language>> = key)
                  => key \in DOMAIN dailyStats

\* C12 witness: three calls for the same counter of the same day have
\* finished, the second and the third issued while an earlier one was in
\* flight.
C12_Witness ==
  /\ Len(calls) = 3
  /\ \A i \in 1..3 :
       /\ calls[i].pc = "done"
       /\ calls[i].field = calls[1].field
       /\ calls[i].language = calls[1].language
       /\ calls[i].date = calls[1].date
  /\ calls[2].overlap /\ calls[3].overlap

\* C13 (as claimed): after ignore() on the current card the stored word is
\* ignored, no queue entry from the queue pointer on refers to the word,
\* and reviewedCount is as before.
C13_IgnoreRemovesWord ==
  [][HandleIgnoreWord("none")
     => LET w == CurrentCard
        IN  /\ vocab'[VocabKey(w.word, w.language)].ignored
            /\ \A k \in (currentIndex' + 1)..Len(reviewQueue') :
                 ~(/\ reviewQueue'[k].word = w.word
                   /\ reviewQueue'[k].language = w.language)
            /\ reviewedCount' = reviewedCount]_vars

\* C14 (as claimed): when a rate() call completes the session, the
\* wordCount of the record it persists is the length of the queue at
\* completion, every re-inserted learning copy counted.
C14_WordCountCountsCopies ==
  [][\A rating \in Ratings :
       (HandleRating(rating, "none") /\ sessionComplete')
       => /\ Len(reviewSessions') = Len(reviewSessions) + 1
          /\ reviewSessions'[Len(reviewSessions')].wordCount
               = Len(reviewQueue')]_vars

\* The sum of wordsAdded over the rows of a language.
RECURSIVE SumWordsAdded(_, _, _)
SumWordsAdded(stats, keys, language) ==
  IF keys = {} THEN 0
  ELSE LET k == CHOOSE x \in keys : TRUE
       IN  (IF k[2] = language THEN stats[k].wordsAdded ELSE 0)
           + SumWordsAdded(stats, keys \ {k}, language)

StoredWords(language) ==
  {key \in DOMAIN vocab : vocab[key].language = language}

\* C15 (as claimed): words are stored once per lower-cased spelling and
\* language, and after any sequence of addVocabWord calls the sum of
\* wordsAdded over all days of a language is the number of stored words of
\* that language.
C15_WordsAddedCountsWords ==
  /\ \A k1, k2 \in DOMAIN vocab :
       (/\ toLowerCase(vocab[k1].word) = toLowerCase(vocab[k2].word)
        /\ vocab[k1].language = vocab[k2].language) => k1 = k2
  /\ \A language \in Languages :
       SumWordsAdded(dailyStats, DOMAIN dailyStats, language)
         = Cardinality(StoredWords(language))

\* C16 (as claimed): with an empty vocabulary the due list and the queue
\* are empty and the session on that queue is Complete with reviewedCount 0.
C16_EmptyQueueComplete ==
  (page = "review" /\ vocab = EmptyFn)
    => /\ getWordsDueForReview(vocab, LangAll, now) = <<>>
       /\ reviewQueue = <<>>
       /\ sessionComplete
       /\ reviewedCount = 0

\* C16 (amended): with an empty vocabulary the due list and the queue are
\* empty and the page is in none of NotStarted, Active and Complete: no
\* session can be started, nothing can be rated or ignored, reviewedCount
\* is 0 and no session record is written.
C16_EmptyQueueAllCaughtUp ==
  (page = "review" /\ vocab = EmptyFn)
    => /\ getWordsDueForReview(vocab, LangAll, now) = <<>>
       /\ reviewQueue = <<>>
       /\ ~ShowsReady /\ ~Active /\ ~ShowsComplete
       /\ ~sessionComplete
       /\ ~ENABLED StartSession
       /\ ~ENABLED HandleRatingStep
       /\ ~ENABLED HandleIgnoreWordStep
       /\ reviewedCount = 0
       /\ reviewSessions = <<>>

\* C16 witness: the page is mounted on an empty vocabulary and Check Again
\* has rebuilt the empty queue.
C16_Witness ==
  /\ page = "review"
  /\ vocab = EmptyFn
  /\ lastOp.op = "reload"
  /\ reviewQueue = <<>>

\* C17 (as claimed): a queue just built, also after a completed session or
\* a change of the language filter, has no start time and is NotStarted,
\* and a session becomes Active only through start(), which records the
\* time of that start.
C17_BuildThenStart ==
  [][/\ (/\ lastOp'.op \in {"mount", "reload", "changeLanguage"}
         /\ reviewQueue' # <<>>)
        => (sessionStartTime' = NoTime /\ ShowsReady')
     /\ (~Active /\ Active')
        => (lastOp'.op = "start" /\ sessionStartTime' = now)]_vars

\* C18 (as claimed): a storage failure in a step of addVocabWord,
\* saveWordReview or saveReviewSession, the nested daily-stat update
\* included, rejects the call: the call does not stay pending.
C18_FailuresSurfaced ==
  lastOp.op \in {"addVocabWord", "rate", "ignore"}
    => lastOp.outcome \in {"resolved", "rejected"}

\* C19: rate() with a value that is none of the four ratings is rejected,
\* and the stored cards, the review events, the daily stats, the queue,
\* the queue pointer and the session counters are as before.
C19_InvalidRating ==
  [][\A rating \in RatingInputs \ Ratings :
       HandleRating(rating, "none")
       => /\ lastOp'.outcome = "rejected"
          /\ UNCHANGED <<vocab, wordReviews, reviewSessions, dailyStats,
                         reviewQueue, currentIndex, reviewedCount,
                         sessionComplete>>]_vars

\* C19 witness: after one card was rated, rate() was called with the value
\* 5 on the next card, the last of the queue, and was rejected.
C19_Witness ==
  /\ lastOp.op = "rate"
  /\ lastOp.rating = 5
  /\ lastOp.outcome = "rejected"
  /\ lastOp.wasLast
  /\ Len(wordReviews) = 1
  /\ currentIndex = 1

\* The stores other than vocab are as they were when the file was written.
OtherStoresRestored ==
  /\ wordReviews = backup.origin.wordReviews
  /\ reviewSessions = backup.origin.reviewSessions
  /\ dailyStats = backup.origin.dailyStats

\* C20 (as claimed): after the import of an export every store holds the
\* records it held when the export was made and no others, each vocabulary
\* word with exactly the same contexts, card and ignored flag.
C20_RoundTripExact ==
  lastOp.op = "import"
    => /\ vocab = backup.origin.vocab
       /\ OtherStoresRestored

\* C20 (amended): the same, except that the dates of a card come back as
\* ISO strings of the same instants, not as Date objects.
C20_RoundTripUpToDates ==
  lastOp.op = "import"
    => /\ DOMAIN vocab = DOMAIN backup.origin.vocab
       /\ \A key \in DOMAIN vocab :
            LET w == vocab[key]
                o == backup.origin.vocab[key]
            IN  /\ w.word = o.word /\ w.language = o.language
                /\ w.contexts = o.contexts
                /\ w.ignored = o.ignored
                /\ w.fsrsCard.state = o.fsrsCard.state
                /\ w.fsrsCard.due = o.fsrsCard.due
                /\ w.fsrsCard.dates = "string"
       /\ OtherStoresRestored

\* C20 witness: the file holds a reviewed word with two contexts; after the
\* export a word was added on a later day and the reviewed word ignored;
\* the import has removed the one and restored the other.
C20_Witness ==
  /\ lastOp.op = "import"
  /\ DateOf(now) > 0
  /\ Len(wordReviews) = 1
  /\ VocabKey(<<"m">>, LangSq) \notin DOMAIN vocab
  /\ \E key \in DOMAIN vocab :
       /\ Len(vocab[key].contexts) = 2
       /\ vocab[key].fsrsCard.state # StNew
       /\ ~vocab[key].ignored
  /\ \A date \in 1..DateOf(MaxNow), language \in Languages :
       <<date, language>> \notin DOMAIN dailyStats


(***************************************************************************)
(* The scheduler on its own: FSRSService.reviewWord applied to the card of *)
(* one stored word, from every card state and due time, at every time.     *)
(***************************************************************************)
CardStates == {StNew, StLearning, StReview, StRelearning}

InitSchedule ==
  /\ \E state \in CardStates, due \in 0..MaxNow :
       vocab = [k \in {VocabKey(SeedWord(1), LangSq)} |->
                 [word |-> SeedWord(1), language |-> LangSq,
                  ignored |-> FALSE,
                  fsrsCard |-> [state |-> state, due |-> due,
                                dates |-> "Date"],
                  contexts |-> <<SeedContext(1)>>]]
  /\ wordReviews = <<>>
  /\ reviewSessions = <<>>
  /\ dailyStats = EmptyFn
  /\ InitPage

\* reviewWord(card, rating) on the stored card, and the card stored back.
ReviewWordCall(rating) ==
  \E key \in DOMAIN vocab :
    LET prior == vocab[key].fsrsCard
        card == reviewWord(prior, rating, now)
    IN  /\ vocab' = updateVocabCard(vocab, vocab[key].word,
                                    vocab[key].language, card)
        /\ lastOp' = [op |-> "reviewWord", prior |-> prior,
                      rating |-> rating, t |-> now, card |-> card]
        /\ UNCHANGED <<backup, calls, wordReviews, reviewSessions,
                       dailyStats, now, page, selectedLanguage, pageVars,
                       failures, loads>>

ReviewWordStep == \E rating \in Ratings : ReviewWordCall(rating)

NextSchedule ==
  \/ ReviewWordStep
  \/ Tick

SpecSchedule == InitSchedule /\ [][NextSchedule]_vars

\* The due interval reviewWord gives a card for a rating at time t.
DueInterval(card, rating, t) == reviewWord(card, rating, t).due - t

HasStat(d, filter) ==
  \E key \in DOMAIN dailyStats :
    /\ dailyStats[key].date = d
    /\ filter = LangAll \/ dailyStats[key].language = filter

\* C22 (as claimed): when today has no daily stat and yesterday has one with
\* reviewCount > 0, the streak is not 0.
C22_StreakSurvivesMissingToday ==
  (/\ lastOp.op = "getStreak"
   /\ ~HasStat(DateOf(now), lastOp.language)
   /\ Reviewed(DateOf(now) - 1, lastOp.language))
  => lastOp.result # 0

\* C22 (amended): when today has no daily stat the streak is 0, whatever the
\* days before hold.
C22_MissingTodayEndsStreak ==
  (/\ lastOp.op = "getStreak"
   /\ ~HasStat(DateOf(now), lastOp.language))
  => lastOp.result = 0

\* Today has no stat, yesterday and the day before were reviewed, and the
\* streak is 0.
C22_Witness ==
  /\ lastOp.op = "getStreak"
  /\ lastOp.fallBack = {}
  /\ ~HasStat(DateOf(now), lastOp.language)
  /\ Reviewed(DateOf(now) - 1, lastOp.language)
  /\ Reviewed(DateOf(now) - 2, lastOp.language)
  /\ lastOp.result = 0

\* The stored words that are due under the page's language filter and whose
\* card is in state New (new = TRUE) or in another state (new = FALSE).
DueKeys(new) ==
  {key \in DOMAIN vocab :
     /\ ~vocab[key].ignored
     /\ selectedLanguage = LangAll \/ vocab[key].language = selectedLanguage
     /\ vocab[key].fsrsCard.due <= now
     /\ (vocab[key].fsrsCard.state = StNew) = new}

\* The number of queue entries of the word stored under key.
EntriesOf(key) ==
  Cardinality({i \in 1..Len(reviewQueue) :
                 VocabKey(reviewQueue[i].word, reviewQueue[i].language) = key})

QueueAsBuilt ==
  /\ \A key \in DueKeys(FALSE) : EntriesOf(key) = 1
  /\ Cardinality(DueKeys(TRUE)) <= MAX_NEW_CARDS
       => \A key \in DueKeys(TRUE) : EntriesOf(key) = 1
  /\ \A i \in 1..Len(reviewQueue) :
       /\ reviewQueue[i].bucket =
            (IF reviewQueue[i].fsrsCard.state = StNew THEN "new"
             ELSE "review")
       /\ reviewQueue[i].bucket # "learning"
  /\ \A i, j \in 1..Len(reviewQueue) :
       (reviewQueue[i].bucket = "new" /\ reviewQueue[j].bucket = "review")
         => i < j

\* C23: the queue loadWordsToReview builds holds every due word that is not
\* New once and, when the due New words do not exceed the cap, every due New
\* word once; an entry is tagged new when its card is New and review
\* otherwise, the new entries precede the review entries, and none is tagged
\* learning.
C23_QueueAsBuilt == [][loads' = loads + 1 => QueueAsBuilt']_vars

\* A queue just built that holds a new entry and a review entry.
C23_Witness ==
  /\ lastOp.op \in {"mount", "reload", "changeLanguage"}
  /\ \E i \in 1..Len(reviewQueue) : reviewQueue[i].bucket = "new"
  /\ \E i \in 1..Len(reviewQueue) : reviewQueue[i].bucket = "review"

\* The number of queue entries at or after the pointer that carry the tag.
PendingWithTag(bucket) ==
  Cardinality({i \in 1..Len(reviewQueue) :
                 i > currentIndex /\ reviewQueue[i].bucket = bucket})

\* C24: in every state of the review page the three remaining counts are
\* the numbers of entries at or after the queue pointer with that tag, and
\* their sum is the queue length minus the pointer.
C24_RemainingCounts ==
  page = "review"
    => /\ newCount = PendingWithTag("new")
       /\ learningCount = PendingWithTag("learning")
       /\ reviewCount = PendingWithTag("review")
       /\ newCount + learningCount + reviewCount
            = Len(reviewQueue) - currentIndex

\* A session with rated entries before the pointer, among them a new one,
\* and a new and a learning entry still to come.
C24_Witness ==
  /\ Active
  /\ currentIndex >= 1
  /\ reviewQueue[1].bucket = "new"
  /\ newCount >= 1
  /\ learningCount >= 1
  /\ newCount + learningCount < Len(reviewQueue)

(***************************************************************************)
(* Two handleRating invocations on one presentation.  The rating buttons   *)
(* stay on screen while the first invocation awaits its storage calls, and *)
(* no flag disables them: a second click runs handleRating from a render   *)
(* with the same queue, index and counters.  Each invocation stores its    *)
(* own card and review (the transactions of a store run in the order they  *)
(* were created, the first invocation's first) and then calls the state    *)
(* setters with values computed from that render; of two calls of a setter *)
(* the later value stays.                                                  *)
(***************************************************************************)
HandleRatingTwice(rating1, rating2) ==
  LET cur == reviewQueue[currentIndex + 1]
      card1 == reviewWord(cur.fsrsCard, rating1, now)
      card2 == reviewWord(cur.fsrsCard, rating2, now)
      review1 == [word |-> cur.word, language |-> cur.language,
                  rating |-> rating1, reviewedAt |-> DateOf(now)]
      review2 == [review1 EXCEPT !.rating = rating2]
      last == IsLastCard(reviewQueue, currentIndex)
      session == SessionRecord(Len(reviewQueue))
      stats2 == StatsAfterReview(StatsAfterReview(dailyStats, review1, now),
                                 review2, now)
  IN  /\ CardShown
      /\ VocabKey(cur.word, cur.language) \in DOMAIN vocab
      /\ Len(wordReviews) + 2 <= MaxReviews
      /\ vocab' = updateVocabCard(
                    updateVocabCard(vocab, cur.word, cur.language, card1),
                    cur.word, cur.language, card2)
      /\ wordReviews' = Append(Append(wordReviews, review1), review2)
      /\ reviewQueue' =
           IF rating2 = Again
           THEN QueueAfterRating(reviewQueue, currentIndex, rating2, card2)
           ELSE QueueAfterRating(reviewQueue, currentIndex, rating1, card1)
      /\ reviewedCount' = reviewedCount + 1
      /\ IF last
         THEN /\ reviewSessions' =
                   IF sessionStartTime # NoTime
                   THEN Append(Append(reviewSessions, session), session)
                   ELSE reviewSessions
              /\ dailyStats' =
                   IF sessionStartTime # NoTime
                   THEN StatsAfterSession(
                          StatsAfterSession(stats2, session, now),
                          session, now)
                   ELSE stats2
              /\ sessionComplete' = TRUE
              /\ currentIndex' = currentIndex
         ELSE /\ dailyStats' = stats2
              /\ currentIndex' = currentIndex + 1
              /\ UNCHANGED <<reviewSessions, sessionComplete>>
      /\ lastOp' = [op |-> "rateTwice", rating |-> rating1,
                    second |-> rating2, index |-> currentIndex,
                    wasLast |-> last, card1 |-> card1, card2 |-> card2]
      /\ UNCHANGED <<backup, calls, now, page, selectedLanguage,
                     sessionStartTime, failures, loads>>

HandleRatingTwiceStep ==
  \E rating1, rating2 \in Ratings : HandleRatingTwice(rating1, rating2)

NextOverlap ==
  \/ MountReviewPage
  \/ StartSession
  \/ RateNoFailure
  \/ HandleRatingTwiceStep

SpecOverlap == InitSeeded /\ [][NextOverlap]_vars

\* C25 (as claimed): when handleRating is invoked a second time on the same
\* presentation before the first invocation has finished, at most one
\* review event is appended, the reviewCount of the word's language today
\* rises by at most 1, the pointer advances by one (or the session
\* completes on the last card), and the stored card is the result of one
\* scheduler step on the presented card.
C25_RatedAtMostOnce ==
  [][lastOp'.op = "rateTwice"
     => LET cur == reviewQueue[currentIndex + 1]
        IN  /\ Len(wordReviews') <= Len(wordReviews) + 1
            /\ ReviewCountOf(dailyStats', DateOf(now), cur.language)
                 <= ReviewCountOf(dailyStats, DateOf(now), cur.language) + 1
            /\ IF lastOp'.wasLast
               THEN sessionComplete' /\ currentIndex' = currentIndex
               ELSE currentIndex' = currentIndex + 1
            /\ vocab'[VocabKey(cur.word, cur.language)].fsrsCard
                 \in {reviewWord(cur.fsrsCard, rating, now) :
                        rating \in Ratings}]_vars

\* What of it the code does keep: the pointer advances by one and the
\* stored card is one scheduler step from the presented card.
DoubleRateKeepsPointerAndCard ==
  [][lastOp'.op = "rateTwice"
     => LET cur == reviewQueue[currentIndex + 1]
        IN  /\ IF lastOp'.wasLast
               THEN sessionComplete' /\ currentIndex' = currentIndex
               ELSE currentIndex' = currentIndex + 1
            /\ reviewedCount' = reviewedCount + 1
            /\ vocab'[VocabKey(cur.word, cur.language)].fsrsCard
                 \in {reviewWord(cur.fsrsCard, rating, now) :
                        rating \in Ratings}]_vars

\* The store key of the i-th queue entry.
EntryKey(i) == VocabKey(reviewQueue[i].word, reviewQueue[i].language)

\* C26: in every Active state a word occurs at most once among the entries
\* at or after the queue pointer.
C26_OnePendingCopy ==
  Active
    => \A i, j \in (currentIndex + 1)..Len(reviewQueue) :
         EntryKey(i) = EntryKey(j) => i = j

\* C27: reviewedCount is the number of review events appended since the
\* queue was built: both are reset together by a queue build, every later
\* step of the session raises them by the same amount, and an ignore step
\* changes neither.
C27_ReviewedCountCountsEvents ==
  [][(loads' = loads /\ page = "review" /\ page' = "review")
     => /\ reviewedCount' - reviewedCount
             = Len(wordReviews') - Len(wordReviews)
        /\ lastOp'.op = "ignore"
             => reviewedCount' = reviewedCount /\ wordReviews' = wordReviews
    ]_vars

\* C28: in every Active state the card carried by each entry at or after
\* the queue pointer is the card stored for its word.
C28_SnapshotIsStoredCard ==
  Active
    => \A i \in (currentIndex + 1)..Len(reviewQueue) :
         /\ EntryKey(i) \in DOMAIN vocab
         /\ reviewQueue[i].fsrsCard = vocab[EntryKey(i)].fsrsCard

(***************************************************************************)
(* A session whose user goes on: as long as the card screen is shown, a    *)
(* rating or an ignore is eventually issued, and Again is chosen at most   *)
(* MaxAgain times.  No storage request fails.                              *)
(***************************************************************************)
AgainCount ==
  Cardinality({i \in 1..Len(wordReviews) : wordReviews[i].rating = Again})

RateAgainBounded ==
  \E rating \in Ratings :
    /\ rating = Again => AgainCount < MaxAgain
    /\ HandleRating(rating, "none")

NextLive ==
  \/ MountReviewPage
  \/ StartSession
  \/ RateAgainBounded
  \/ IgnoreNoFailure

SpecLive ==
  /\ InitSeeded
  /\ [][NextLive]_vars
  /\ WF_vars(RateAgainBounded \/ IgnoreNoFailure)

\* C29 (as claimed): a started session reaches Complete.
C29_SessionTerminates == Active ~> sessionComplete

\* The session does reach Complete or the card screen without a card: the
\* state after an ignore of the last entry of a longer queue is the only
\* one it stays in.
SessionEndsOrDangles ==
  Active ~> (sessionComplete \/ (Active /\ ~CardShown))

(***************************************************************************)
(* The vocabulary service called with words and language names that hold   *)
(* the character "_".  The word is a token of the page text split at white *)
(* space, the language the string the page record carries; neither is      *)
(* restricted to letters.                                                  *)
(***************************************************************************)
KeyWords == {<<"a">>, <<"a", "_", "b">>}
KeyLanguages == {<<"c">>, <<"b", "_", "c">>}

AddKeyWord ==
  \E word \in KeyWords, language \in KeyLanguages,
     context \in {SeedContext(1), SeedContext(2)} :
    AddVocabWord(word, language, context, "none")

UpdateKeyCard ==
  \E word \in KeyWords, language \in KeyLanguages, rating \in {Again, Good} :
    UpdateVocabCardCall(word, language, rating)

ToggleKeyWord ==
  \E word \in KeyWords, language \in KeyLanguages :
    ToggleIgnoreWordCall(word, language)

NextKeys ==
  \/ AddKeyWord
  \/ UpdateKeyCard
  \/ ToggleKeyWord
  \/ Tick

SpecKeys == InitEmpty /\ [][NextKeys]_vars

\* The stored record under key belongs to the word (word, language).
RecordOf(key, word, language) ==
  /\ vocab[key].word = toLowerCase(word)
  /\ vocab[key].language = language

\* The word (word, language) has a stored record.
IsStored(word, language) ==
  \E key \in DOMAIN vocab : RecordOf(key, word, language)

\* A call for (word, language) leaves the records of all other words as they
\* are, and finds no record when the word itself has none.
CallKeepsToItsWord(word, language) ==
  /\ \A key \in DOMAIN vocab :
       ~RecordOf(key, word, language)
         => key \in DOMAIN vocab' /\ vocab'[key] = vocab[key]
  /\ ~IsStored(word, language)
       => IF lastOp'.op = "addVocabWord" THEN lastOp'.isNew
          ELSE lastOp'.outcome.settled = "rejected"

\* C30 (as claimed): addVocabWord, updateVocabCard and toggleIgnoreWord for
\* one word neither read nor modify the record of a word with another
\* (lowercased word, language) identity, also when the strings hold "_".
C30_NoSharedKey ==
  [][\A word \in Words \cup KeyWords, language \in Languages \cup KeyLanguages :
       (\/ \E context \in Contexts :
             AddVocabWord(word, language, context, "none")
        \/ \E rating \in Ratings : UpdateVocabCardCall(word, language, rating)
        \/ ToggleIgnoreWordCall(word, language))
         => CallKeepsToItsWord(word, language)]_vars
====
